---------------------------- MODULE Spec2Model ----------------------------
(***************************************************************************)
(* A model of vibrant-rs: the median-cut quantizer                         *)
(* (src/src/quantizer/median_cut.rs), the error checks of the NeuQuant     *)
(* adapter (src/src/quantizer/neu.rs), the palette container               *)
(* (src/src/palette.rs) and the vibrancy selector (src/src/vibrant.rs).    *)
(*                                                                         *)
(* Conventions.                                                            *)
(*  - A quantized color is a triple <<r, g, b>> of 5-bit values, a pixel a *)
(*    tuple <<r, g, b, a>> of bytes, an 8-bit color a triple of bytes.     *)
(*  - The image handed to a quantizer is the resampled pixel stream.  It   *)
(*    is written run-length encoded: a sequence of runs [px, n], standing  *)
(*    for n consecutive copies of px.                                      *)
(*  - Rust's 0-based Vec positions are 1-based sequence positions here.    *)
(*  - f64 values are exact rationals <<num, den>>, den > 0, in lowest      *)
(*    terms.                                                               *)
(***************************************************************************)
EXTENDS Integers, Sequences, FiniteSets

VARIABLES
    pc,             \* position of the running operation
    image,          \* input: the pixel stream, as runs
    colors,         \* input: the requested color count
    quality,        \* input: the quality (downscale factor)
    filter,         \* input: the pixel filter closure
    buckets,        \* Histogram.buckets, sparse: absent index = count 0
    buffer,         \* distinct_colors: the buffer every VBox slices
    queue,          \* BinaryHeap data vector of VBoxes
    result,         \* value returned by a quantizer
    pixels_cleaned, \* the pixels kept: Palette::new pixels_cleaned, Neu flat_pixels
    palette,        \* Palette.palette
    pixel_counts,   \* Palette.pixel_counts
    by_frequency,   \* the Palette returned by sort_by_frequency
    vibrancy        \* the Vibrancy under construction

\* the inputs of a quantizer
ivars == <<image, colors, quality, filter>>
\* the working state of MedianCut::quantize
hvars == <<buckets, buffer, queue>>
\* the Palette and what is derived from it
pvars == <<pixels_cleaned, palette, pixel_counts, by_frequency, vibrancy>>

vars == <<pc, ivars, hvars, result, pvars>>

\* Option<T>: None is the empty sequence, Some(x) the sequence of x alone
None == <<>>
Some(x) == <<x>>
is_some(o) == o # <<>>
unwrap(o) == o[1]

----------------------------------------------------------------------------
(* Bounds of the model. *)

\* longest pixel stream handed to MedianCut::quantize, in runs
MaxRuns == 4

\* longest pixel stream handed to Neu::quantize and to Palette::new, in runs
MaxShortRuns == 2

\* most entries of a Palette
MaxPalette == 3

----------------------------------------------------------------------------
(* Generic helpers. *)

Min2(a, b) == IF a < b THEN a ELSE b
Max2(a, b) == IF a < b THEN b ELSE a

SetMin(S) == CHOOSE x \in S : \A y \in S : x <= y

SeqsUpTo(S, n) == UNION {[1..k -> S] : k \in 0..n}

----------------------------------------------------------------------------
(* Quantized channels and colors: median_cut.rs lines 14-114. *)

BITS == 5

Pow2(n) == 2 ^ n

\* Quantized::from_color: color >> (8 - BITS)
from_color(c) == c \div Pow2(8 - BITS)

\* Quantized::to_color: self.0 << (8 - BITS), in u8
to_color(q) == (q * Pow2(8 - BITS)) % Pow2(8)

\* Rgb<Quantized>::as_color_index: the three fields do not overlap, so the
\* bit-or is a sum
as_color_index(c) == c[1] * Pow2(2 * BITS) + c[2] * Pow2(BITS) + c[3]

\* the decoding of a bucket index in Histogram::buckets
color_of_index(i) ==
    << i \div Pow2(2 * BITS), (i \div Pow2(BITS)) % Pow2(BITS), i % Pow2(BITS) >>

\* the map of from_image: drop alpha, quantize each channel
quantize_pixel(px) == << from_color(px[1]), from_color(px[2]), from_color(px[3]) >>

----------------------------------------------------------------------------
(* Pixel filters: the closure handed to quantize.  palette.rs lines 98-108. *)

MIN_ALPHA == 125
MAX_COLOR == 250

\* image::Pixel::to_rgb: the alpha channel is dropped
to_rgb(px) == << px[1], px[2], px[3] >>

\* is_boring_pixel: MIN_ALPHA is declared and never read
is_boring_pixel(rgb) ==
    LET interesting == ~(rgb[1] > MAX_COLOR /\ rgb[2] > MAX_COLOR /\ rgb[3] > MAX_COLOR)
    IN  ~interesting

\* the filters a caller passes: |_| true, and |p| !is_boring_pixel(p.to_rgb())
Filters == {"all", "interesting"}

Passes(f, px) ==
    IF f = "all" THEN TRUE ELSE ~is_boring_pixel(to_rgb(px))

----------------------------------------------------------------------------
(* Histogram: median_cut.rs lines 116-189. *)

\* Histogram::count_of
count_of(h, c) ==
    IF as_color_index(c) \in DOMAIN h THEN h[as_color_index(c)] ELSE 0

\* insert with `=` for `+=`
insert_assign(h, c, n) ==
    LET i == as_color_index(c)
    IN  [j \in DOMAIN h \cup {i} |-> IF j = i THEN n ELSE h[j]]

\* Histogram::insert, applied n times (one run of n equal pixels)
insert(h, c, n) ==
    LET i == as_color_index(c)
    IN  IF i \in DOMAIN h
        THEN [h EXCEPT ![i] = h[i] + n]
        ELSE [j \in DOMAIN h \cup {i} |-> IF j = i THEN n ELSE h[j]]

\* the insertion loop of from_image over the filtered, quantized pixels
RECURSIVE insert_all(_, _, _)
insert_all(h, img, f) ==
    IF img = <<>> THEN h
    ELSE LET run == Head(img)
         IN  insert_all(IF Passes(f, run.px)
                        THEN insert(h, quantize_pixel(run.px), run.n)
                        ELSE h,
                        Tail(img), f)

\* Histogram::buckets filtered on count != 0: the colors of the non-empty
\* buckets, by increasing bucket index
RECURSIVE unique_colors(_)
unique_colors(idx) ==
    IF idx = {} THEN <<>>
    ELSE LET i == SetMin(idx)
         IN  <<color_of_index(i)>> \o unique_colors(idx \ {i})

\* Histogram::from_image: << histogram, distinct colors >>
from_image(img, f) ==
    LET h == insert_all(<<>>, img, f)
    IN  << h, unique_colors({i \in DOMAIN h : h[i] # 0}) >>

----------------------------------------------------------------------------
(* Bounds: median_cut.rs lines 57-85 and 191-224. *)

\* MinMax::from_value
from_value(v) == [min |-> v, max |-> v]

\* extend with `else if` for the second `if`
mm_extend_else(mm, v) ==
    IF v < mm.min THEN [mm EXCEPT !.min = v]
    ELSE IF mm.min < v THEN [mm EXCEPT !.max = v] ELSE mm

\* MinMax::extend
mm_extend(mm, v) ==
    LET m1 == IF v < mm.min THEN [mm EXCEPT !.min = v] ELSE mm
    IN  IF m1.max < v THEN [m1 EXCEPT !.max = v] ELSE m1

\* MinMax<Quantized>::len
mm_len(mm) == mm.max - mm.min + 1

\* Bounds::new
bounds_new(c) == << from_value(c[1]), from_value(c[2]), from_value(c[3]) >>

\* Bounds::extend
bounds_extend(b, c) ==
    << mm_extend(b[1], c[1]), mm_extend(b[2], c[2]), mm_extend(b[3], c[3]) >>

\* Bounds::volume
volume(b) == mm_len(b[1]) * mm_len(b[2]) * mm_len(b[3])

\* Bounds::longest_dimension
longest_dimension(b) ==
    LET r == mm_len(b[1])
        g == mm_len(b[2])
        bl == mm_len(b[3])
    IN  IF r >= g /\ r >= bl THEN "R"
        ELSE IF g >= r /\ g >= bl THEN "G"
        ELSE "B"

----------------------------------------------------------------------------
(* VBox: median_cut.rs lines 226-308.  A VBox owns the subrange of `buffer` *)
(* that starts at position lo and holds len colors.                        *)

\* the slice a box owns
slice(buf, lo, len) == SubSeq(buf, lo, lo + len - 1)

\* the fold with `population = count` for `population += count`
RECURSIVE fold_colors_assign(_, _, _, _)
fold_colors_assign(h, cs, bounds, population) ==
    IF cs = <<>> THEN [bounds |-> bounds, population |-> population]
    ELSE fold_colors_assign(h, Tail(cs), bounds_extend(bounds, Head(cs)),
                            count_of(h, Head(cs)))

\* the fold of from_colors over the colors after the first
RECURSIVE fold_colors(_, _, _, _)
fold_colors(h, cs, bounds, population) ==
    IF cs = <<>> THEN [bounds |-> bounds, population |-> population]
    ELSE fold_colors(h, Tail(cs), bounds_extend(bounds, Head(cs)),
                     population + count_of(h, Head(cs)))

\* VBox::from_colors on a non-empty slice
from_colors(buf, lo, len, h) ==
    LET cs == slice(buf, lo, len)
        acc == fold_colors(h, Tail(cs), bounds_new(Head(cs)), count_of(h, Head(cs)))
    IN  [lo |-> lo, len |-> len, bounds |-> acc.bounds, population |-> acc.population]

\* the quotient cast to u8 without the call of round
round_div_u8_truncating(n, d) == Min2(n \div d, Pow2(8) - 1)

\* f64::round of the non-negative quotient n / d, then `as u8` (saturating)
round_div_u8(n, d) == Min2((2 * n + d) \div (2 * d), Pow2(8) - 1)

\* the weighted channel sum folded by average
RECURSIVE channel_sum(_, _, _)
channel_sum(h, cs, ch) ==
    IF cs = <<>> THEN 0
    ELSE count_of(h, Head(cs)) * to_color(Head(cs)[ch]) + channel_sum(h, Tail(cs), ch)

\* VBox::average
average(buf, box, h) ==
    LET cs == slice(buf, box.lo, box.len)
    IN  [color |-> << round_div_u8(channel_sum(h, cs, 1), box.population),
                      round_div_u8(channel_sum(h, cs, 2), box.population),
                      round_div_u8(channel_sum(h, cs, 3), box.population) >>,
         population |-> box.population]

\* the comparison keys of the three sorts in split
sort_key(c, dim) ==
    IF dim = "R" THEN << c[1], c[2], c[3] >>
    ELSE IF dim = "G" THEN << c[2], c[1], c[3] >>
    ELSE << c[3], c[1], c[2] >>

\* [T; 3]::cmp = Less
lex_less(a, b) ==
    \/ a[1] < b[1]
    \/ a[1] = b[1] /\ a[2] < b[2]
    \/ a[1] = b[1] /\ a[2] = b[2] /\ a[3] < b[3]

\* insertion of c into a sorted sequence
RECURSIVE sorted_insert(_, _, _)
sorted_insert(s, c, dim) ==
    IF s = <<>> THEN <<c>>
    ELSE IF lex_less(sort_key(c, dim), sort_key(Head(s), dim)) THEN <<c>> \o s
    ELSE <<Head(s)>> \o sorted_insert(Tail(s), c, dim)

\* sort_unstable_by: the colors of a slice are distinct and the order is
\* total, so the sorted slice is unique
RECURSIVE sort_unstable_by(_, _)
sort_unstable_by(s, dim) ==
    IF s = <<>> THEN <<>>
    ELSE sorted_insert(sort_unstable_by(Tail(s), dim), Head(s), dim)

\* position with the comparison p < count_of(c)
position_strict(h, cs, p) ==
    LET hits == {i \in 1..Len(cs) : p < count_of(h, cs[i])}
    IN  IF hits = {} THEN None ELSE Some(SetMin(hits) - 1)

\* Iterator::position(|c| p <= count_of(c)), 0-based, None when absent
position(h, cs, p) ==
    LET hits == {i \in 1..Len(cs) : p <= count_of(h, cs[i])}
    IN  IF hits = {} THEN None ELSE Some(SetMin(hits) - 1)

\* the split point without `.min(self.colors.len() - 1)`
split_point_unclamped(h, cs, population) ==
    LET split_point_population == population \div 2
        pos == position(h, cs, split_point_population)
        v == IF is_some(pos) THEN unwrap(pos) + 1 ELSE Len(cs)
    IN  Max2(v, 1)

\* the split point of VBox::split
split_point(h, cs, population) ==
    LET split_point_population == population \div 2
        pos == position(h, cs, split_point_population)
        v == IF is_some(pos) THEN unwrap(pos) + 1 ELSE Len(cs)
    IN  Max2(Min2(v, Len(cs) - 1), 1)

\* split with the second box dropped when it holds one color
split_drops_single(buf, box, h) ==
    LET sorted == sort_unstable_by(slice(buf, box.lo, box.len),
                                   longest_dimension(box.bounds))
        buf2 == [i \in 1..Len(buf) |->
                    IF i >= box.lo /\ i < box.lo + box.len
                    THEN sorted[i - box.lo + 1] ELSE buf[i]]
        k == split_point(h, sorted, box.population)
    IN  [buffer |-> buf2,
         a |-> from_colors(buf2, box.lo, k, h),
         b |-> IF box.len - k <= 1 THEN None
               ELSE Some(from_colors(buf2, box.lo + k, box.len - k, h))]

\* VBox::split: the buffer after the in-place sort, and the two boxes (b is
\* None when the second slice is empty)
split(buf, box, h) ==
    LET sorted == sort_unstable_by(slice(buf, box.lo, box.len),
                                   longest_dimension(box.bounds))
        buf2 == [i \in 1..Len(buf) |->
                    IF i >= box.lo /\ i < box.lo + box.len
                    THEN sorted[i - box.lo + 1] ELSE buf[i]]
        k == split_point(h, sorted, box.population)
    IN  [buffer |-> buf2,
         a |-> from_colors(buf2, box.lo, k, h),
         b |-> IF box.len - k = 0 THEN None
               ELSE Some(from_colors(buf2, box.lo + k, box.len - k, h))]

----------------------------------------------------------------------------
(* SortedVBox and its extractors: median_cut.rs lines 314-380. *)

\* PopulationExtractor::extract / PopulationVolumeExtractor::extract
extract(E, box) ==
    IF E = "PopulationExtractor" THEN box.population
    ELSE box.population * volume(box.bounds)

\* Ord for SortedVBox: self <= other
vbox_le(E, x, y) == extract(E, x) <= extract(E, y)

----------------------------------------------------------------------------
(* std::collections::BinaryHeap over the data vector d, as the quantizer   *)
(* uses it: new, push, pop, from(vec), iter.                               *)

\* BinaryHeap::sift_up with the hole at pos holding e
RECURSIVE sift_up_hole(_, _, _, _, _)
sift_up_hole(E, d, e, start, pos) ==
    IF pos > start /\ ~vbox_le(E, e, d[pos \div 2])
    THEN sift_up_hole(E, [d EXCEPT ![pos] = d[pos \div 2]], e, start, pos \div 2)
    ELSE [d EXCEPT ![pos] = e]

sift_up(E, d, start, pos) == sift_up_hole(E, d, d[pos], start, pos)

\* BinaryHeap::sift_down_range with the hole at pos holding e
RECURSIVE sift_down_hole(_, _, _, _, _)
sift_down_hole(E, d, e, pos, end) ==
    LET child == 2 * pos
    IN  IF child + 1 <= end
        THEN LET c == IF vbox_le(E, d[child], d[child + 1]) THEN child + 1 ELSE child
             IN  IF vbox_le(E, d[c], e) THEN [d EXCEPT ![pos] = e]
                 ELSE sift_down_hole(E, [d EXCEPT ![pos] = d[c]], e, c, end)
        ELSE IF child = end /\ ~vbox_le(E, d[child], e)
        THEN [d EXCEPT ![pos] = d[child], ![child] = e]
        ELSE [d EXCEPT ![pos] = e]

sift_down(E, d, pos) == sift_down_hole(E, d, d[pos], pos, Len(d))

\* BinaryHeap::sift_down_to_bottom: the hole goes to a leaf, then sift_up
RECURSIVE to_bottom_hole(_, _, _, _, _)
to_bottom_hole(E, d, e, start, pos) ==
    LET child == 2 * pos
        end == Len(d)
    IN  IF child + 1 <= end
        THEN LET c == IF vbox_le(E, d[child], d[child + 1]) THEN child + 1 ELSE child
             IN  to_bottom_hole(E, [d EXCEPT ![pos] = d[c]], e, start, c)
        ELSE IF child = end
        THEN sift_up_hole(E, [d EXCEPT ![pos] = d[child]], e, start, child)
        ELSE sift_up_hole(E, d, e, start, pos)

sift_down_to_bottom(E, d, pos) == to_bottom_hole(E, d, d[pos], pos, pos)

\* BinaryHeap::push
heap_push(E, d, x) == sift_up(E, Append(d, x), 1, Len(d) + 1)

\* BinaryHeap::pop on a non-empty heap: the item and the data left
heap_pop(E, d) ==
    LET last == d[Len(d)]
        rest == SubSeq(d, 1, Len(d) - 1)
    IN  IF rest = <<>> THEN [item |-> last, data |-> rest]
        ELSE [item |-> rest[1],
              data |-> sift_down_to_bottom(E, [rest EXCEPT ![1] = last], 1)]

\* BinaryHeap::rebuild: sift_down of the positions len/2 down to the root
RECURSIVE rebuild_from(_, _, _)
rebuild_from(E, d, n) ==
    IF n = 0 THEN d ELSE rebuild_from(E, sift_down(E, d, n), n - 1)

\* the vector taken for a heap as it is
heap_from_unchanged(E, d) == d

\* BinaryHeap::from(vec)
heap_from(E, d) == rebuild_from(E, d, Len(d) \div 2)

----------------------------------------------------------------------------
(* split_boxes and MedianCut::quantize: median_cut.rs lines 382-460. *)

\* the range written 2..256
COLOR_RANGE_to_256 == [start |-> 2, end |-> 256]

\* COLOR_RANGE = 2..257, a half-open Range<usize>
COLOR_RANGE == [start |-> 2, end |-> 257]

\* Range::contains
range_contains(r, x) == r.start <= x /\ x < r.end

\* the target without the factor 0.75
phase1_target_all(n) == n

\* the target of the first split_boxes call: (0.75 * colors as f64) as usize
phase1_target(n) == (3 * n) \div 4

\* the loop condition with <= for <
loop_continues_inclusive(len, target) == len <= target

\* the loop condition of split_boxes
loop_continues(len, target) == len < target

\* the iteration without the break
split_iteration_no_break(E, buf, d, h) ==
    LET popped == heap_pop(E, d)
        sp == split(buf, popped.item, h)
        d1 == heap_push(E, popped.data, sp.a)
    IN  IF is_some(sp.b)
        THEN [buffer |-> sp.buffer, data |-> heap_push(E, d1, unwrap(sp.b)),
              broke |-> FALSE]
        ELSE [buffer |-> sp.buffer, data |-> d1, broke |-> FALSE]

\* one iteration of the loop of split_boxes: pop, split, push the first box,
\* push the second or break
split_iteration(E, buf, d, h) ==
    LET popped == heap_pop(E, d)
        sp == split(buf, popped.item, h)
        d1 == heap_push(E, popped.data, sp.a)
    IN  IF is_some(sp.b)
        THEN [buffer |-> sp.buffer, data |-> heap_push(E, d1, unwrap(sp.b)),
              broke |-> FALSE]
        ELSE [buffer |-> sp.buffer, data |-> d1, broke |-> TRUE]

\* queue.iter().map(|b| b.vbox.average(&histogram)).collect()
RECURSIVE collect_averages(_, _, _)
collect_averages(buf, d, h) ==
    IF d = <<>> THEN <<>>
    ELSE <<average(buf, Head(d), h)>> \o collect_averages(buf, Tail(d), h)

NoResult ==
    [tag |-> "None", entries |-> <<>>, error |-> "", value |-> 0, range |-> None]
Ok(entries) == [NoResult EXCEPT !.tag = "Ok", !.entries = entries]
Err(kind, value, range) ==
    [NoResult EXCEPT !.tag = "Err", !.error = kind, !.value = value, !.range = range]

\* quantize, lines 416-418: the color count check
CheckColorCount ==
    /\ pc = "start"
    /\ IF ~range_contains(COLOR_RANGE, colors)
       THEN /\ pc' = "done"
            /\ result' = Err("ColorCountOutOfBounds", colors, Some(COLOR_RANGE))
       ELSE /\ pc' = "checked"
            /\ UNCHANGED result
    /\ UNCHANGED <<ivars, hvars, pvars>>

\* quantize, lines 426-427: Histogram::from_image over the resampled pixels
BuildHistogram ==
    /\ pc = "checked"
    /\ LET hi == from_image(image, filter)
       IN  /\ buckets' = hi[1]
           /\ buffer' = hi[2]
    /\ pc' = "built"
    /\ UNCHANGED <<ivars, queue, result, pvars>>

\* quantize, lines 440-442: the box of all distinct colors, pushed on a new
\* heap ordered by population.  from_colors panics on an empty slice (the
\* debug assertion, or the unwrap of the first color).
InitialBox ==
    /\ pc = "built"
    /\ IF buffer = <<>>
       THEN /\ pc' = "panic"
            /\ UNCHANGED queue
       ELSE /\ queue' = heap_push("PopulationExtractor", <<>>,
                                  from_colors(buffer, 1, Len(buffer), buckets))
            /\ pc' = "phase1"
    /\ UNCHANGED <<ivars, buckets, buffer, result, pvars>>

\* one evaluation of the loop of split_boxes in phase `phase` with extractor
\* E and target `target`; `next` is where quantize continues after the loop
SplitBoxes(phase, E, target, next) ==
    /\ pc = phase
    /\ IF loop_continues(Len(queue), target)
       THEN LET it == split_iteration(E, buffer, queue, buckets)
            IN  /\ buffer' = it.buffer
                /\ queue' = it.data
                /\ pc' = IF it.broke THEN next ELSE phase
       ELSE /\ pc' = next
            /\ UNCHANGED <<buffer, queue>>
    /\ UNCHANGED <<ivars, buckets, result, pvars>>

\* quantize, line 443
SplitPhase1 ==
    SplitBoxes("phase1", "PopulationExtractor", phase1_target(colors), "rekey")

\* quantize, lines 444-455: the data vector is reinterpreted under the
\* population * volume order and heapified again
Rekey ==
    /\ pc = "rekey"
    /\ queue' = heap_from("PopulationVolumeExtractor", queue)
    /\ pc' = "phase2"
    /\ UNCHANGED <<ivars, buckets, buffer, result, pvars>>

\* quantize, line 456
SplitPhase2 ==
    SplitBoxes("phase2", "PopulationVolumeExtractor", colors, "average")

\* quantize, line 458
Average ==
    /\ pc = "average"
    /\ result' = Ok(collect_averages(buffer, queue, buckets))
    /\ pc' = "done"
    /\ UNCHANGED <<ivars, hvars, pvars>>

----------------------------------------------------------------------------
(* The inputs of the quantizer. *)

\* pixels of the input images: three opaque colors, one translucent color,
\* opaque white
PixelSet ==
    { <<248, 248, 0, 100>>, <<248, 8, 0, 255>>, <<128, 16, 0, 255>>,
      <<120, 16, 0, 255>>, <<255, 255, 255, 255>> }

\* the runs of equal pixels: every pixel alone, and long runs of two colors
Runs ==
    [px : PixelSet, n : {1}]
        \cup { [px |-> <<248, 8, 0, 255>>, n |-> 15],
               [px |-> <<120, 16, 0, 255>>, n |-> 15] }

\* requested color counts, around both ends of COLOR_RANGE
\* the images of at most n runs, no run twice: a color seen again comes as the
\* long run and the single pixel of that color
Images(n) ==
    {img \in SeqsUpTo(Runs, n) :
        \A i, j \in DOMAIN img : img[i] = img[j] => i = j}

ColorCounts == {1, 2, 3, 4, 256, 257}

\* no Palette, no Vibrancy
NoVibrancy ==
    [primary |-> None, dark |-> None, light |-> None,
     muted |-> None, dark_muted |-> None, light_muted |-> None]

IdlePalette ==
    /\ pixels_cleaned = <<>>
    /\ palette = <<>>
    /\ pixel_counts = <<>>
    /\ by_frequency = None
    /\ vibrancy = NoVibrancy

IdleQuantizer ==
    /\ buckets = <<>>
    /\ buffer = <<>>
    /\ queue = <<>>
    /\ result = NoResult

\* MedianCut::quantize(image, colors, quality, filter); the image is the
\* pixel stream after the resize by 1 / quality
Init ==
    /\ pc = "start"
    /\ image \in Images(MaxRuns)
    /\ colors \in ColorCounts
    /\ quality = 1
    /\ filter \in Filters
    /\ IdleQuantizer
    /\ IdlePalette

Next ==
    \/ CheckColorCount
    \/ BuildHistogram
    \/ InitialBox
    \/ SplitPhase1
    \/ Rekey
    \/ SplitPhase2
    \/ Average

Spec == Init /\ [][Next]_vars

----------------------------------------------------------------------------
(* What the claims about MedianCut::quantize speak of. *)

\* the number of pixels of the stream the filter accepts
RECURSIVE PassingPixels(_, _)
PassingPixels(img, f) ==
    IF img = <<>> THEN 0
    ELSE (IF Passes(f, Head(img).px) THEN Head(img).n ELSE 0)
         + PassingPixels(Tail(img), f)

\* the distinct 5-bit colors of the accepted pixels
PassingColors(img, f) ==
    { quantize_pixel(img[i].px) : i \in {j \in 1..Len(img) : Passes(f, img[j].px)} }

RECURSIVE SumPopulations(_)
SumPopulations(es) ==
    IF es = <<>> THEN 0 ELSE Head(es).population + SumPopulations(Tail(es))

Returned == pc = "done" /\ result.tag = "Ok"

InSplitLoop == pc \in {"phase1", "rekey", "phase2", "average"}

\* C1: the populations of the entries MedianCut::quantize returns add up to
\* the number of pixels of the stream that pass the filter.
C1_PopulationConservation ==
    Returned => SumPopulations(result.entries) = PassingPixels(image, filter)

\* a returned palette of several entries for a stream of which the filter
\* dropped some pixels
C1_Witness ==
    /\ Returned
    /\ Len(result.entries) >= 2
    /\ PassingPixels(image, filter) < PassingPixels(image, "all")
    /\ \E i \in 1..Len(image) : image[i].n > 1 /\ Passes(filter, image[i].px)

\* C2: for a color count N in [2,256] the heap never holds more than N
\* boxes during phase 1 and phase 2, and the returned list has at most N
\* entries.
C2_AtMostN ==
    /\ InSplitLoop => Len(queue) <= colors
    /\ Returned => Len(result.entries) <= colors

\* a returned palette of exactly N entries for a stream of more than N
\* distinct colors
C2_Witness ==
    /\ Returned
    /\ Len(result.entries) = colors
    /\ Cardinality(PassingColors(image, filter)) > colors

\* C3: a stream whose accepted pixels have at least N distinct quantized
\* colors yields exactly N entries.
C3_ExactlyN ==
    (Returned /\ Cardinality(PassingColors(image, filter)) >= colors)
        => Len(result.entries) = colors

\* C4: no two entries of the returned list have the same color.
C4_DistinctColors ==
    Returned =>
        \A i, j \in 1..Len(result.entries) :
            i # j => result.entries[i].color # result.entries[j].color

\* C9: quantize returns Err(ColorCountOutOfBounds) with the requested count
\* and the valid range exactly when the count is outside [2,256], and then
\* no pixel has been read; a count inside [2,256] never gives the error.
C9_ColorCountOutOfBounds ==
    /\ pc # "start" =>
          ((pc = "done" /\ result.tag = "Err") <=> ~(2 <= colors /\ colors <= 256))
    /\ result.tag = "Err" =>
          /\ result.error = "ColorCountOutOfBounds"
          /\ result.value = colors
          /\ result.range = Some([start |-> 2, end |-> 257])
          /\ buckets = <<>> /\ buffer = <<>> /\ queue = <<>>

\* the error for a count just above the range, on a stream that has pixels
C9_Witness ==
    /\ pc = "done"
    /\ result.tag = "Err"
    /\ colors = 257
    /\ image # <<>>

\* the number of accepted pixels of the stream that quantize to c
RECURSIVE PassingCount(_, _, _)
PassingCount(img, f, c) ==
    IF img = <<>> THEN 0
    ELSE (IF Passes(f, Head(img).px) /\ quantize_pixel(Head(img).px) = c
          THEN Head(img).n ELSE 0)
         + PassingCount(Tail(img), f, c)

\* C11: when the accepted pixels have D = 1 or D = 2 distinct quantized
\* colors, quantize returns exactly D entries, one per quantized color c,
\* with color c << 3 per channel and population the number of accepted
\* pixels that quantize to c.
C11_FewColors ==
    LET cs == PassingColors(image, filter)
    IN  (Returned /\ Cardinality(cs) \in {1, 2}) =>
            /\ Len(result.entries) = Cardinality(cs)
            /\ \A c \in cs :
                  \E i \in 1..Len(result.entries) :
                      /\ result.entries[i].color = << c[1] * 8, c[2] * 8, c[3] * 8 >>
                      /\ result.entries[i].population = PassingCount(image, filter, c)

\* two colors of populations 1 and 15, asked for 256 colors
C11_Witness ==
    /\ Returned
    /\ colors = 256
    /\ Cardinality(PassingColors(image, filter)) = 2
    /\ \E i \in 1..Len(result.entries) : result.entries[i].population = 1
    /\ \E i \in 1..Len(result.entries) : result.entries[i].population >= 15

\* C14: for every stream and every N in [2,256], a stream without an
\* accepted pixel included, quantize completes with Ok: from_colors never
\* gets an empty slice, and every box built has colors and a population
\* above 0.
C14_NeverEmptyBox ==
    /\ pc # "panic"
    /\ \A i \in 1..Len(queue) : queue[i].len > 0 /\ queue[i].population > 0
    /\ (pc = "done" /\ range_contains(COLOR_RANGE, colors)) => result.tag = "Ok"

\* the colors of the slice of a box, as a set
ColorsOf(buf, box) == { buf[p] : p \in box.lo..(box.lo + box.len - 1) }

\* the sum of the histogram counts of a set of colors
RECURSIVE SumCounts(_, _)
SumCounts(h, cs) ==
    IF cs = {} THEN 0
    ELSE LET c == CHOOSE x \in cs : TRUE
         IN  (IF as_color_index(c) \in DOMAIN h THEN h[as_color_index(c)] ELSE 0)
             + SumCounts(h, cs \ {c})

\* the bounds of a box are the least and greatest value of each channel
TightBounds(buf, box) ==
    \A ch \in 1..3 :
        /\ \E c \in ColorsOf(buf, box) : c[ch] = box.bounds[ch].min
        /\ \E c \in ColorsOf(buf, box) : c[ch] = box.bounds[ch].max
        /\ \A c \in ColorsOf(buf, box) :
              box.bounds[ch].min <= c[ch] /\ c[ch] <= box.bounds[ch].max

\* C15: at every point of the split loop the slices of the boxes in the heap
\* are pairwise disjoint, together they hold exactly the distinct quantized
\* colors of the accepted pixels, each box's population is the sum of the
\* counts of its colors and its bounds are the tight minimum and maximum of
\* its colors in each channel.
C15_BoxesPartition ==
    InSplitLoop =>
        /\ \A p \in 1..Len(buffer) :
              Cardinality({i \in 1..Len(queue) :
                  queue[i].lo <= p /\ p < queue[i].lo + queue[i].len}) = 1
        /\ \A i \in 1..Len(queue) :
              queue[i].lo >= 1 /\ queue[i].lo + queue[i].len - 1 <= Len(buffer)
        /\ \A p, q \in 1..Len(buffer) : p # q => buffer[p] # buffer[q]
        /\ { buffer[p] : p \in 1..Len(buffer) } = PassingColors(image, filter)
        /\ \A i \in 1..Len(queue) :
              /\ queue[i].population
                     = SumCounts(buckets, ColorsOf(buffer, queue[i]))
              /\ TightBounds(buffer, queue[i])

\* three boxes, one of them of several colors, in phase 2
C15_Witness ==
    /\ pc = "phase2"
    /\ Len(queue) >= 3
    /\ \E i \in 1..Len(queue) : queue[i].len >= 2

\* split applied to box: a second box exactly for two colors or more, both
\* children then hold colors and share out the colors of the parent; a box
\* of one color comes back alone and unchanged
SplitsInTwo(buf, box, h) ==
    LET sp == split(buf, box, h)
    IN  /\ is_some(sp.b) <=> box.len >= 2
        /\ box.len >= 2 =>
              LET a == sp.a
                  b == unwrap(sp.b)
              IN  /\ a.len >= 1 /\ b.len >= 1
                  /\ ColorsOf(sp.buffer, a) \cap ColorsOf(sp.buffer, b) = {}
                  /\ ColorsOf(sp.buffer, a) \cup ColorsOf(sp.buffer, b)
                         = ColorsOf(buf, box)
                  /\ a.len + b.len = box.len
        /\ box.len = 1 =>
              /\ sp.b = None
              /\ ColorsOf(sp.buffer, sp.a) = ColorsOf(buf, box)
              /\ sp.a.len = 1
              /\ sp.a.population = box.population

\* C16: VBox::split returns a second box if and only if the box holds at
\* least 2 colors; then both children are non-empty and together hold
\* exactly the parent's colors; a box of one color gives (the same color and
\* population, None).  Stated of every box the heap holds in the split loop.
C16_SplitSecondBox ==
    InSplitLoop => \A i \in 1..Len(queue) : SplitsInTwo(buffer, queue[i], buckets)

\* the heap holds a box of one color and a box of three colors or more
C16_Witness ==
    /\ InSplitLoop
    /\ \E i \in 1..Len(queue) : queue[i].len = 1
    /\ \E i \in 1..Len(queue) : queue[i].len >= 3

\* the key of a color with dim as the primary channel: (r,g,b), (g,r,b)
\* or (b,r,g)
PrimaryKey(c, dim) ==
    CASE dim = "R" -> << c[1], c[2], c[3] >>
      [] dim = "G" -> << c[2], c[1], c[3] >>
      [] dim = "B" -> << c[3], c[1], c[2] >>

LexBefore(x, y) ==
    \E n \in 1..3 : x[n] < y[n] /\ \A m \in 1..(n - 1) : x[m] = y[m]

\* the split index of a sorted slice cs of a box with the given population:
\* with P = population / 2, the position after the first color whose count
\* is at least P, the length when there is none, clamped to at most len - 1
\* and then to at least 1
SplitIndex(h, cs, population) ==
    LET P == population \div 2
        found == { i \in 1..Len(cs) : SumCounts(h, {cs[i]}) >= P }
        k == IF found # {} THEN SetMin(found) ELSE Len(cs)
        atmost == IF k > Len(cs) - 1 THEN Len(cs) - 1 ELSE k
    IN  IF atmost < 1 THEN 1 ELSE atmost

\* split leaves the slice of box sorted by the key of its longest dimension
\* and cuts it at the split index
SplitsAtIndex(buf, box, h) ==
    LET sp == split(buf, box, h)
        dim == longest_dimension(box.bounds)
        lo == box.lo
        hi == box.lo + box.len - 1
        cs == SubSeq(sp.buffer, lo, hi)
    IN  /\ { sp.buffer[p] : p \in lo..hi } = ColorsOf(buf, box)
        /\ \A p \in 1..Len(buf) : (p < lo \/ p > hi) => sp.buffer[p] = buf[p]
        /\ \A p, q \in lo..hi :
              p < q => LexBefore(PrimaryKey(sp.buffer[p], dim),
                                 PrimaryKey(sp.buffer[q], dim))
        /\ sp.a.lo = lo
        /\ sp.a.len = SplitIndex(h, cs, box.population)

SameBoxes(d1, d2) ==
    /\ Len(d1) = Len(d2)
    /\ \A i \in 1..Len(d1) :
          Cardinality({j \in 1..Len(d1) : d1[j] = d1[i]})
              = Cardinality({j \in 1..Len(d2) : d2[j] = d1[i]})

\* floor(0.75 * N)
ThreeQuarters(n) == (3 * n) \div 4

\* a step that ends phase 1: the heap holds floor(0.75 N) boxes, or the box
\* at the root, the one popped, held one color and is back in the heap
Phase1Ends ==
    (pc = "phase1" /\ pc' # "phase1") =>
        /\ pc' = "rekey"
        /\ \/ Len(queue') = ThreeQuarters(colors)
           \/ /\ Len(queue) < ThreeQuarters(colors)
              /\ queue[1].len = 1
              /\ SameBoxes(queue, queue')
              /\ buffer' = buffer

\* a pop of a box of one color in phase 1 ends the phase in that step
SingletonStopsPhase1 ==
    (pc = "phase1" /\ Len(queue) < ThreeQuarters(colors) /\ queue[1].len = 1)
        => pc' = "rekey"

\* after phase 1 the heap is rebuilt and phase 2 is entered
Phase2StillRuns ==
    /\ pc = "rekey" => pc' = "phase2"
    /\ pc = "phase2" => pc' \in {"phase2", "average"}

\* C18: phase 1 ends with exactly floor(0.75 N) boxes in the heap unless a
\* popped box held one color; then phase 1 stops at once with fewer boxes,
\* that box is pushed back, so the boxes are those before the pop, and phase
\* 2 still runs.  floor(0.75 N) is never 0 for N in [2,256].
C18_Phase1Target ==
    /\ [](pc \in {"phase1", "rekey", "phase2"} => ThreeQuarters(colors) # 0)
    /\ [][Phase1Ends /\ SingletonStopsPhase1 /\ Phase2StillRuns]_vars

\* phase 1 has stopped early, with several boxes but fewer than its target
C18_Witness ==
    /\ pc = "rekey"
    /\ 1 < Len(queue)
    /\ Len(queue) < ThreeQuarters(colors)

\* the key of a box in each phase: the population, and the population times
\* the volume of the bounds
KeyOf(phase, box) ==
    IF phase = "phase1" THEN box.population
    ELSE box.population
           * (box.bounds[1].max - box.bounds[1].min + 1)
           * (box.bounds[2].max - box.bounds[2].min + 1)
           * (box.bounds[3].max - box.bounds[3].min + 1)

\* the box at the root of the heap, the next one popped, has a maximal key
RootIsMaximal ==
    (pc \in {"phase1", "phase2"} /\ queue # <<>>) =>
        \A i \in 1..Len(queue) : KeyOf(pc, queue[i]) <= KeyOf(pc, queue[1])

\* the box a split step takes out of the heap is the one at the root: the
\* others stay
RootIsSplit ==
    (pc \in {"phase1", "phase2"} /\ queue' # queue) =>
        /\ \A j \in 2..Len(queue) : \E i \in 1..Len(queue') : queue'[i] = queue[j]
        /\ Len(queue') = Len(queue) + 1 =>
              \A i \in 1..Len(queue') : queue'[i] # queue[1]

\* the transition between the phases keeps the boxes
RekeyKeepsBoxes ==
    pc = "rekey" => (SameBoxes(queue, queue') /\ buffer' = buffer)

\* C19: the box split in each iteration has a maximal key among the boxes
\* in the heap, the key being the population in phase 1 and population *
\* volume in phase 2, the first pop of phase 2 included; the transition
\* changes the ordering only and keeps the boxes.
C19_MaximalKey ==
    /\ []RootIsMaximal
    /\ [][RootIsSplit /\ RekeyKeepsBoxes]_vars

\* phase 2 starts with a root that does not have the largest population
C19_Witness ==
    /\ pc = "phase2"
    /\ Len(queue) >= 2
    /\ Len(queue) < colors
    /\ \E i \in 2..Len(queue) : queue[i].population > queue[1].population

\* an evaluation of the loop of split_boxes adds exactly one box and stays
\* in the loop, or leaves the loop
OneMoreOrExit ==
    pc \in {"phase1", "phase2"} =>
        \/ pc' = pc /\ Len(queue') = Len(queue) + 1
        \/ pc' # pc /\ Len(queue') \in {Len(queue), Len(queue) + 1}

\* the iteration the loop is about to run adds a box or breaks
IterationProgresses ==
    LET E == IF pc = "phase1" THEN "PopulationExtractor"
             ELSE "PopulationVolumeExtractor"
        target == IF pc = "phase1" THEN ThreeQuarters(colors) ELSE colors
    IN  (pc \in {"phase1", "phase2"} /\ Len(queue) < target) =>
            LET it == split_iteration(E, buffer, queue, buckets)
            IN  it.broke \/ Len(it.data) = Len(queue) + 1

\* C20: the two-phase split loop terminates: every iteration of split_boxes
\* adds exactly one box to the heap or leaves the loop, over both phases at
\* most N - 1 splits succeed, and quantize reaches the averaging step for
\* every stream with an accepted pixel.  Termination is stated by its
\* variant: an iteration adds a box or breaks, a step that stays in the
\* loop grows the heap, and the heap holds at most N boxes; with an accepted
\* pixel quantize never panics.
C20_LoopTerminates ==
    /\ [][OneMoreOrExit]_vars
    /\ [](InSplitLoop => Len(queue) - 1 <= colors - 1)
    /\ [](PassingPixels(image, filter) > 0 => pc # "panic")
    /\ []IterationProgresses

\* the averaging step reached after two splits or more
C20_Witness ==
    /\ pc = "average"
    /\ Len(queue) >= 3
    /\ Len(queue) = colors

\* the sum over a set of colors of count times (q << 3) of one channel
RECURSIVE WeightedSum(_, _, _)
WeightedSum(h, cs, ch) ==
    IF cs = {} THEN 0
    ELSE LET c == CHOOSE x \in cs : TRUE
         IN  SumCounts(h, {c}) * (c[ch] * 8) + WeightedSum(h, cs \ {c}, ch)

\* v is the integer nearest to s / w
NearestTo(v, s, w) ==
    /\ 2 * (v * w - s) <= w
    /\ 2 * (s - v * w) <= w

\* C21: the entry returned for each box of the final heap has, per channel,
\* the weighted mean of (q << 3) over the colors of the box, the histogram
\* counts being the weights, rounded to nearest; its population is the sum
\* of the weights; the channel lies between (min << 3) and (max << 3) of the
\* bounds of the box and so is at most 248.
C21_AverageIsWeightedMean ==
    Returned =>
        /\ Len(result.entries) = Len(queue)
        /\ \A i \in 1..Len(queue) :
              LET cs == ColorsOf(buffer, queue[i])
                  e == result.entries[i]
              IN  /\ e.population = SumCounts(buckets, cs)
                  /\ \A ch \in 1..3 :
                        /\ NearestTo(e.color[ch], WeightedSum(buckets, cs, ch),
                                     SumCounts(buckets, cs))
                        /\ queue[i].bounds[ch].min * 8 <= e.color[ch]
                        /\ e.color[ch] <= queue[i].bounds[ch].max * 8
                        /\ e.color[ch] <= 248

\* a returned entry one channel of which is a mean rounded up, strictly
\* between the bounds of its box
C21_Witness ==
    /\ Returned
    /\ \E i \in 1..Len(queue) : \E ch \in 1..3 :
          LET cs == ColorsOf(buffer, queue[i])
              v == result.entries[i].color[ch]
          IN  /\ i <= Len(result.entries)
              /\ v * SumCounts(buckets, cs) > WeightedSum(buckets, cs, ch)
              /\ queue[i].bounds[ch].min * 8 < v
              /\ v < queue[i].bounds[ch].max * 8

\* the histogram is built and no error was returned
HistogramBuilt == pc = "built" \/ InSplitLoop \/ Returned

\* the channels of a pixel right-shifted by 3
ShiftedBy3(px) == << px[1] \div 8, px[2] \div 8, px[3] \div 8 >>

\* the number of accepted pixels of the stream that shift to the color c
RECURSIVE PixelsShiftingTo(_, _, _)
PixelsShiftingTo(img, f, c) ==
    IF img = <<>> THEN 0
    ELSE (IF Passes(f, Head(img).px) /\ ShiftedBy3(Head(img).px) = c
          THEN Head(img).n ELSE 0)
         + PixelsShiftingTo(Tail(img), f, c)

\* the colors the pixels of the inputs shift to, and one no pixel shifts to
ProbedColors == { ShiftedBy3(px) : px \in PixelSet } \cup { <<0, 0, 1>> }

\* (r << 10) | (g << 5) | b
IndexOf(c) == c[1] * 1024 + c[2] * 32 + c[3]

\* C22: the histogram of from_image counts, for each color c, the accepted
\* pixels whose channels shifted right by 3 give c, so the counts add up to
\* the number of accepted pixels; the list of from_image holds each color of
\* non-zero count exactly once, no other color, in strictly increasing order
\* of the index (r << 10) | (g << 5) | b.
C22_HistogramCounts ==
    /\ HistogramBuilt =>
          /\ \A c \in ProbedColors :
                count_of(buckets, c) = PixelsShiftingTo(image, filter, c)
          /\ \A i \in DOMAIN buckets :
                \E c \in ProbedColors :
                    IndexOf(c) = i /\ buckets[i] = PixelsShiftingTo(image, filter, c)
          /\ SumCounts(buckets, ProbedColors) = PassingPixels(image, filter)
    /\ pc = "built" =>
          /\ \A c \in ProbedColors :
                Cardinality({p \in 1..Len(buffer) : buffer[p] = c})
                    = IF PixelsShiftingTo(image, filter, c) # 0 THEN 1 ELSE 0
          /\ \A p \in 1..Len(buffer) : buffer[p] \in ProbedColors
          /\ \A p \in 1..(Len(buffer) - 1) :
                IndexOf(buffer[p]) < IndexOf(buffer[p + 1])

\* a histogram of several colors, one of them counted from two runs, for a
\* stream that starts with a pixel the filter drops and whose first accepted
\* color is not the color of the least index
C22_Witness ==
    /\ pc = "built"
    /\ Len(buffer) >= 2
    /\ \E c \in ProbedColors : count_of(buckets, c) = 16
    /\ Len(image) >= 2
    /\ ~Passes(filter, image[1].px)
    /\ Passes(filter, image[2].px)
    /\ ShiftedBy3(image[2].px) # buffer[1]

----------------------------------------------------------------------------
(* Neu::quantize: neu.rs lines 9-60.  The NeuQuant network itself is the   *)
(* color_quant crate's; the model follows quantize up to its call.         *)

\* the ranges of the two checks
NEU_QUALITY_RANGE == [start |-> 1, end |-> 31]
NEU_COLOR_RANGE == [start |-> 64, end |-> 266]

\* the pixels of a stream, run by run
RECURSIVE expand(_)
expand(img) ==
    IF img = <<>> THEN <<>>
    ELSE [i \in 1..Head(img).n |-> Head(img).px] \o expand(Tail(img))

\* Iterator::filter / Vec::retain
RECURSIVE select(_, _)
select(pxs, f) ==
    IF pxs = <<>> THEN <<>>
    ELSE (IF Passes(f, Head(pxs)) THEN <<Head(pxs)>> ELSE <<>>) \o select(Tail(pxs), f)

\* lines 23-28: the error the two checks return, NoResult when both pass
neu_checks(q, n) ==
    IF ~range_contains(NEU_QUALITY_RANGE, q)
    THEN Err("QualityOutOfBounds", q, Some(NEU_QUALITY_RANGE))
    ELSE IF ~range_contains(NEU_COLOR_RANGE, n)
    THEN Err("ColorCountOutOfBounds", n, Some(NEU_COLOR_RANGE))
    ELSE NoResult

\* lines 23-28
NeuCheck ==
    /\ pc = "start"
    /\ result' = neu_checks(quality, colors)
    /\ pc' = IF result'.tag = "Err" THEN "done" ELSE "checked"
    /\ UNCHANGED <<ivars, hvars, pvars>>

\* lines 30-41: the accepted pixels, flattened for NeuQuant::new
NeuCollect ==
    /\ pc = "checked"
    /\ pixels_cleaned' = select(expand(image), filter)
    /\ pc' = "neuquant"
    /\ UNCHANGED <<ivars, hvars, result, palette, pixel_counts, by_frequency, vibrancy>>

\* qualities and color counts around the ends of the ranges
Qualities == {0, 1, 30, 31}
NeuColorCounts == {1, 2, 63, 64, 256, 265, 266}

InitNeu ==
    /\ pc = "start"
    /\ image \in SeqsUpTo(Runs, MaxShortRuns)
    /\ colors \in NeuColorCounts
    /\ quality \in Qualities
    /\ filter \in Filters
    /\ IdleQuantizer
    /\ IdlePalette

NextNeu ==
    \/ NeuCheck
    \/ NeuCollect

SpecNeu == InitNeu /\ [][NextNeu]_vars

NeuChecked == pc \in {"done", "checked", "neuquant"}

\* C10: Neu::quantize returns QualityOutOfBounds exactly when quality is
\* outside [1,30], also when the color count is out of range too, and a color
\* count in [2,256] with a valid quality does not give ColorCountOutOfBounds.
C10_NeuErrors ==
    NeuChecked =>
        /\ (result.tag = "Err" /\ result.error = "QualityOutOfBounds")
               <=> ~(1 <= quality /\ quality <= 30)
        /\ (1 <= quality /\ quality <= 30 /\ 2 <= colors /\ colors <= 256)
               => ~(result.tag = "Err" /\ result.error = "ColorCountOutOfBounds")

----------------------------------------------------------------------------
(* Palette: palette.rs.  A Palette is `palette`, the colors, and           *)
(* `pixel_counts`, the map from the position of a color to its population; *)
(* Palette::new gives every position a count.  The palettes sorted here     *)
(* hold no color twice.                                                    *)

\* Palette::new, lines 43-56: the pixels of the image without alpha, and of
\* them those that are not boring.  The quantization that follows counts
\* exactly the pixels of pixels_cleaned.
RECURSIVE map_to_rgb(_)
map_to_rgb(pxs) ==
    IF pxs = <<>> THEN <<>> ELSE <<to_rgb(Head(pxs))>> \o map_to_rgb(Tail(pxs))

RECURSIVE retain_not_boring(_)
retain_not_boring(rgbs) ==
    IF rgbs = <<>> THEN <<>>
    ELSE (IF ~is_boring_pixel(Head(rgbs)) THEN <<Head(rgbs)>> ELSE <<>>)
         \o retain_not_boring(Tail(rgbs))

PaletteNewPixels ==
    /\ pc = "Palette::new"
    /\ pixels_cleaned' = retain_not_boring(map_to_rgb(expand(image)))
    /\ pc' = "cleaned"
    /\ UNCHANGED <<ivars, hvars, result, palette, pixel_counts, by_frequency, vibrancy>>

\* HashMap::get(&index).unwrap_or(&0)
count_at(counts, i) == IF i \in DOMAIN counts THEN counts[i] ELSE 0

\* Palette::frequency_of: the count at the first position that holds color
frequency_of(pal, counts, color) ==
    LET found == {i \in 1..Len(pal) : pal[i] = color}
    IN  IF found # {} THEN count_at(counts, SetMin(found)) ELSE 0

\* insertion behind the elements that do not compare greater: a stable sort
RECURSIVE stable_insert(_, _, _, _)
stable_insert(s, c, pal, counts) ==
    IF s = <<>> THEN <<c>>
    ELSE IF frequency_of(pal, counts, c) < frequency_of(pal, counts, Head(s))
    THEN <<c>> \o s
    ELSE <<Head(s)>> \o stable_insert(Tail(s), c, pal, counts)

\* slice::sort_by with the comparison of frequency_of
RECURSIVE sort_by(_, _, _)
sort_by(cs, pal, counts) ==
    IF cs = <<>> THEN <<>>
    ELSE stable_insert(sort_by(SubSeq(cs, 1, Len(cs) - 1), pal, counts),
                       cs[Len(cs)], pal, counts)

\* Palette::sort_by_frequency
sort_by_frequency(pal, counts) ==
    [palette |-> sort_by(pal, pal, counts), pixel_counts |-> counts]

SortByFrequency ==
    /\ pc = "sort_by_frequency"
    /\ by_frequency' = Some(sort_by_frequency(palette, pixel_counts))
    /\ pc' = "sorted"
    /\ UNCHANGED <<ivars, hvars, result, pixels_cleaned, palette, pixel_counts, vibrancy>>

\* the colors and populations of the palettes handed to sort_by_frequency and
\* to the vibrancy selector
PaletteColors ==
    { <<50, 50, 50>>, <<255, 120, 120>>, <<205, 105, 105>>, <<50, 150, 100>>,
      <<100, 100, 100>>, <<204, 204, 204>> }

Populations == {0, 10, 200}

\* no color twice
Distinct(pal) == \A i, j \in 1..Len(pal) : i # j => pal[i] # pal[j]

NoImage ==
    /\ image = <<>>
    /\ colors = 0
    /\ quality = 1
    /\ filter = "all"

InitPalette ==
    /\ IdleQuantizer
    /\ by_frequency = None
    /\ vibrancy = NoVibrancy
    /\ pixels_cleaned = <<>>
    /\ \/ /\ pc = "Palette::new"
          /\ image \in SeqsUpTo(Runs, MaxShortRuns)
          /\ colors = 64
          /\ quality = 1
          /\ filter = "interesting"
          /\ palette = <<>>
          /\ pixel_counts = <<>>
       \/ /\ pc = "sort_by_frequency"
          /\ NoImage
          /\ palette \in {pal \in SeqsUpTo(PaletteColors, MaxPalette) : Distinct(pal)}
          /\ pixel_counts \in [1..Len(palette) -> Populations]

NextPalette ==
    \/ PaletteNewPixels
    \/ SortByFrequency

SpecPalette == InitPalette /\ [][NextPalette]_vars

\* the (color, population) entries of a palette, with their multiplicities:
\* how often each pair occurs
Entries(pal, counts) ==
    [e \in {<<pal[i], count_at(counts, i)>> : i \in 1..Len(pal)} |->
        Cardinality({i \in 1..Len(pal) : <<pal[i], count_at(counts, i)>> = e})]

\* C5: sort_by_frequency returns the same (color, population) entries,
\* populations in non-decreasing order, equal populations in their old order.
C5_SortByFrequency ==
    pc = "sorted" =>
        LET out == unwrap(by_frequency)
            n == Len(out.palette)
        IN  /\ Entries(out.palette, out.pixel_counts) = Entries(palette, pixel_counts)
            /\ \A i, j \in 1..n :
                  i < j => count_at(out.pixel_counts, i) <= count_at(out.pixel_counts, j)
            /\ \E perm \in [1..n -> 1..n] :
                  /\ \A i, j \in 1..n : i # j => perm[i] # perm[j]
                  /\ \A i \in 1..n :
                        /\ out.palette[i] = palette[perm[i]]
                        /\ count_at(out.pixel_counts, i) = count_at(pixel_counts, perm[i])
                  /\ \A i, j \in 1..n :
                        (i < j /\ count_at(out.pixel_counts, i) = count_at(out.pixel_counts, j))
                            => perm[i] < perm[j]

\* the spec's filter F
AcceptedByF(px) ==
    px[4] >= 125 /\ ~(px[1] > 250 /\ px[2] > 250 /\ px[3] > 250)

\* C6: a pixel is counted when a palette is built if and only if its alpha
\* is at least 125 and it is not near-white: the pixels kept are those the
\* predicate accepts, in their order.
C6_CountedPixels ==
    pc = "cleaned" =>
        LET pxs == expand(image)
            kept == {i \in 1..Len(pxs) : AcceptedByF(pxs[i])}
        IN  /\ Len(pixels_cleaned) = Cardinality(kept)
            /\ \A rgb \in {to_rgb(px) : px \in PixelSet} :
                  Cardinality({i \in 1..Len(pixels_cleaned) : pixels_cleaned[i] = rgb})
                      = Cardinality({i \in kept : to_rgb(pxs[i]) = rgb})

----------------------------------------------------------------------------
(* f64 arithmetic, exact: a value is <<num, den>> with den > 0, in lowest  *)
(* terms.                                                                  *)

RECURSIVE Gcd(_, _)
Gcd(a, b) == IF b = 0 THEN a ELSE Gcd(b, a % b)

Abs(n) == IF n < 0 THEN -n ELSE n

Rat(n, d) ==
    LET g == Gcd(Abs(n), Abs(d))
        sgn == IF d < 0 THEN -1 ELSE 1
    IN  << sgn * (n \div g), sgn * (d \div g) >>

RInt(n) == << n, 1 >>
RAdd(x, y) == Rat(x[1] * y[2] + y[1] * x[2], x[2] * y[2])
RSub(x, y) == Rat(x[1] * y[2] - y[1] * x[2], x[2] * y[2])
RMul(x, y) == Rat(x[1] * y[1], x[2] * y[2])
RDiv(x, y) == Rat(x[1] * y[2], x[2] * y[1])
RLt(x, y) == x[1] * y[2] < y[1] * x[2]
RLe(x, y) == x[1] * y[2] <= y[1] * x[2]
RAbs(x) == << Abs(x[1]), x[2] >>

\* f64::round: to the nearest integer, halves away from zero
RRound(x) ==
    IF x[1] >= 0 THEN (2 * x[1] + x[2]) \div (2 * x[2])
    ELSE -((2 * (-x[1]) + x[2]) \div (2 * x[2]))

----------------------------------------------------------------------------
(* The hsl crate, as vibrant.rs uses it: HSL::from_rgb and HSL::to_rgb.    *)

\* HSL::from_rgb, the s and l it returns, both in [0, 1]
from_rgb_sl(rgb) ==
    LET max == Max2(Max2(rgb[1], rgb[2]), rgb[3])
        min == Min2(Min2(rgb[1], rgb[2]), rgb[3])
        delta == max - min
        l == Rat(max + min, 2 * 255)
    IN  IF delta = 0 THEN [s |-> RInt(0), l |-> l]
        ELSE IF RLt(l, Rat(1, 2)) THEN [s |-> Rat(delta, max + min), l |-> l]
        ELSE [s |-> Rat(delta, 2 * 255 - max - min), l |-> l]

\* HSL::from_rgb, the h it returns, in degrees
from_rgb_h(rgb) ==
    LET max == Max2(Max2(rgb[1], rgb[2]), rgb[3])
        min == Min2(Min2(rgb[1], rgb[2]), rgb[3])
        delta == max - min
        r2 == RDiv(RAdd(Rat(max - rgb[1], 6), Rat(delta, 2)), RInt(delta))
        g2 == RDiv(RAdd(Rat(max - rgb[2], 6), Rat(delta, 2)), RInt(delta))
        b2 == RDiv(RAdd(Rat(max - rgb[3], 6), Rat(delta, 2)), RInt(delta))
        h0 == IF max = rgb[1] THEN RSub(b2, g2)
              ELSE IF max = rgb[2] THEN RSub(RAdd(Rat(1, 3), r2), b2)
              ELSE RSub(RAdd(Rat(2, 3), g2), r2)
        h == IF RLt(h0, RInt(0)) THEN RAdd(h0, RInt(1))
             ELSE IF RLt(RInt(1), h0) THEN RSub(h0, RInt(1))
             ELSE h0
    IN  IF delta = 0 THEN RInt(0)
        ELSE Rat(RRound(RMul(h, RInt(360 * 100))), 100)

\* HSL::from_rgb
hsl_from_rgb(rgb) ==
    [h |-> from_rgb_h(rgb), s |-> from_rgb_sl(rgb).s, l |-> from_rgb_sl(rgb).l]

\* percent_to_byte: (percent * 255.0).round() as u8
percent_to_byte(x) == Max2(0, Min2(RRound(RMul(x, RInt(255))), 255))

\* hue_to_rgb
hue_to_rgb(p, q, t0) ==
    LET t == IF RLt(t0, RInt(0)) THEN RAdd(t0, RInt(1))
             ELSE IF RLt(RInt(1), t0) THEN RSub(t0, RInt(1))
             ELSE t0
    IN  IF RLt(t, Rat(1, 6)) THEN RAdd(p, RMul(RMul(RSub(q, p), RInt(6)), t))
        ELSE IF RLt(t, Rat(1, 2)) THEN q
        ELSE IF RLt(t, Rat(2, 3))
        THEN RAdd(p, RMul(RMul(RSub(q, p), RSub(Rat(2, 3), t)), RInt(6)))
        ELSE p

\* HSL::to_rgb
hsl_to_rgb(hsl) ==
    LET h == RDiv(hsl.h, RInt(360))
        s == hsl.s
        l == hsl.l
        q == IF RLt(l, Rat(1, 2)) THEN RMul(l, RAdd(RInt(1), s))
             ELSE RSub(RAdd(l, s), RMul(l, s))
        p == RSub(RMul(RInt(2), l), q)
    IN  IF s = RInt(0)
        THEN << percent_to_byte(l), percent_to_byte(l), percent_to_byte(l) >>
        ELSE << percent_to_byte(hue_to_rgb(p, q, RAdd(h, Rat(1, 3)))),
                percent_to_byte(hue_to_rgb(p, q, h)),
                percent_to_byte(hue_to_rgb(p, q, RSub(h, Rat(1, 3)))) >>

----------------------------------------------------------------------------
(* settings: the role windows and the weights of the score.                *)

MIN_NORMAL_LUMA == Rat(3, 10)
TARGET_NORMAL_LUMA == Rat(5, 10)
MAX_NORMAL_LUMA == Rat(7, 10)
MIN_LIGHT_LUMA == Rat(55, 100)
TARGET_LIGHT_LUMA == Rat(74, 100)
TARGET_DARK_LUMA == Rat(26, 100)
MAX_DARK_LUMA == Rat(45, 100)
MIN_VIBRANT_SATURATION == Rat(35, 100)
TARGET_VIBRANT_SATURATION == RInt(1)
TARGET_MUTED_SATURATION == Rat(3, 10)
MAX_MUTED_SATURATION == Rat(4, 10)
WEIGHT_SATURATION == RInt(3)
WEIGHT_LUMA == RInt(6)
WEIGHT_POPULATION == RInt(1)

\* struct MTM<T>
MTM(min, target, max) == [min |-> min, target |-> target, max |-> max]

----------------------------------------------------------------------------
(* vibrant.rs                                                              *)

Roles == {"primary", "light", "dark", "muted", "light_muted", "dark_muted"}

\* the luma argument of each lookup of generate_varation_colors
luma_of(role) ==
    CASE role \in {"primary", "muted"} ->
            MTM(MIN_NORMAL_LUMA, TARGET_NORMAL_LUMA, MAX_NORMAL_LUMA)
      [] role \in {"light", "light_muted"} ->
            MTM(MIN_LIGHT_LUMA, TARGET_LIGHT_LUMA, RInt(1))
      [] role \in {"dark", "dark_muted"} ->
            MTM(RInt(0), TARGET_DARK_LUMA, MAX_DARK_LUMA)

\* the saturation arguments with the muted window handed to the dark lookup
saturation_of_dark_as_muted(role) ==
    IF role \in {"primary", "light"}
    THEN MTM(MIN_VIBRANT_SATURATION, TARGET_VIBRANT_SATURATION, RInt(1))
    ELSE MTM(RInt(0), TARGET_MUTED_SATURATION, MAX_MUTED_SATURATION)

\* the saturation argument of each lookup of generate_varation_colors
saturation_of(role) ==
    IF role \in {"primary", "light", "dark"}
    THEN MTM(MIN_VIBRANT_SATURATION, TARGET_VIBRANT_SATURATION, RInt(1))
    ELSE MTM(RInt(0), TARGET_MUTED_SATURATION, MAX_MUTED_SATURATION)

color_already_set_primary(self, color) == self.primary = Some(color)

\* Vibrancy::color_already_set
color_already_set(self, color) ==
    \/ self.primary = Some(color)
    \/ self.dark = Some(color)
    \/ self.light = Some(color)
    \/ self.muted = Some(color)
    \/ self.dark_muted = Some(color)
    \/ self.light_muted = Some(color)

invert_diff(val, target_val) == RSub(RInt(1), RAbs(RSub(val, target_val)))

RECURSIVE weighted_fold(_, _, _)
weighted_fold(vals, sum, sum_weight) ==
    IF vals = <<>> THEN << sum, sum_weight >>
    ELSE weighted_fold(Tail(vals),
                       RAdd(sum, RMul(Head(vals)[1], Head(vals)[2])),
                       RAdd(sum_weight, Head(vals)[2]))

weighted_mean(vals) ==
    LET f == weighted_fold(vals, RInt(0), RInt(0))
    IN  RDiv(f[1], f[2])

create_comparison_value(sat, target_sat, luma, target_uma, population, max_population) ==
    weighted_mean(<< << invert_diff(sat, target_sat), WEIGHT_SATURATION >>,
                     << invert_diff(luma, target_uma), WEIGHT_LUMA >>,
                     << Rat(population, max_population), WEIGHT_POPULATION >> >>)

in_window_no_max(s, l, luma, saturation) ==
    /\ RLe(saturation.min, s)
    /\ RLe(luma.min, l)

\* the window test of find_color_variation
in_window(s, l, luma, saturation) ==
    /\ RLe(saturation.min, s) /\ RLe(s, saturation.max)
    /\ RLe(luma.min, l) /\ RLe(l, luma.max)

\* pixel_counts.values().max(), of a map that is not empty
max_count(counts) ==
    CHOOSE m \in {counts[i] : i \in DOMAIN counts} :
        \A i \in DOMAIN counts : counts[i] <= m

\* the loop with `value >= max_value` for `value > max_value`
RECURSIVE find_from_keeps_last(_, _, _, _, _, _, _)
find_from_keeps_last(self, pal, counts, luma, saturation, i, best) ==
    IF i > Len(pal) THEN best[1]
    ELSE
        LET swatch == pal[i]
            hsl == from_rgb_sl(swatch)
            population == count_at(counts, i)
            value == create_comparison_value(hsl.s, saturation.target,
                                             hsl.l, luma.target,
                                             population, max_count(counts))
            skip == \/ ~in_window(hsl.s, hsl.l, luma, saturation)
                    \/ color_already_set(self, swatch)
                    \/ population = 0
        IN  IF skip
            THEN find_from_keeps_last(self, pal, counts, luma, saturation, i + 1, best)
            ELSE IF best[1] = None \/ ~RLt(value, best[2])
            THEN find_from_keeps_last(self, pal, counts, luma, saturation, i + 1,
                                      << Some(swatch), value >>)
            ELSE find_from_keeps_last(self, pal, counts, luma, saturation, i + 1, best)

\* the loop of find_color_variation from index i on; best is <<max, max_value>>
RECURSIVE find_from(_, _, _, _, _, _, _)
find_from(self, pal, counts, luma, saturation, i, best) ==
    IF i > Len(pal) THEN best[1]
    ELSE
        LET swatch == pal[i]
            hsl == from_rgb_sl(swatch)  \* let HSL {h: _, s, l} = HSL::from_rgb(..)
            population == count_at(counts, i)
            value == create_comparison_value(hsl.s, saturation.target,
                                             hsl.l, luma.target,
                                             population, max_count(counts))
            skip == \/ ~in_window(hsl.s, hsl.l, luma, saturation)
                    \/ color_already_set(self, swatch)
                    \/ population = 0
        IN  IF skip
            THEN find_from(self, pal, counts, luma, saturation, i + 1, best)
            ELSE IF best[1] = None \/ RLt(best[2], value)
            THEN find_from(self, pal, counts, luma, saturation, i + 1,
                           << Some(swatch), value >>)
            ELSE find_from(self, pal, counts, luma, saturation, i + 1, best)

\* Vibrancy::find_color_variation, of pixel_counts that are not empty
find_color_variation(self, pal, counts, luma, saturation) ==
    find_from(self, pal, counts, luma, saturation, 1, << None, RInt(0) >>)

\* let mut hsl = HSL::from_rgb(..); hsl.l = x (or hsl.s = x); hsl.to_rgb()
with_component(color, component, x) ==
    hsl_to_rgb([hsl_from_rgb(color) EXCEPT ![component] = x])

\* the assignment without the test of v.slot.is_none()
fill_slot_overwrites(v, slot, from, component, x) ==
    IF is_some(v[from])
    THEN [v EXCEPT ![slot] = Some(with_component(unwrap(v[from]), component, x))]
    ELSE v

\* if v.slot.is_none() && v.from.is_some() { v.slot = Some(..) }
fill_slot(v, slot, from, component, x) ==
    IF v[slot] = None /\ is_some(v[from])
    THEN [v EXCEPT ![slot] = Some(with_component(unwrap(v[from]), component, x))]
    ELSE v

\* generate_empty_swatches, lines 209-222: no vibrant color at all
fill_from_muted(v) ==
    IF v.primary = None /\ v.dark = None /\ v.light = None
    THEN fill_slot(fill_slot(v, "dark", "dark_muted", "l", TARGET_DARK_LUMA),
                   "light", "light_muted", "l", TARGET_LIGHT_LUMA)
    ELSE v

\* generate_empty_swatches, lines 223-233: primary from dark, else from light
fill_primary(v) ==
    IF v.primary = None /\ is_some(v.dark)
    THEN fill_slot(v, "primary", "dark", "l", TARGET_NORMAL_LUMA)
    ELSE fill_slot(v, "primary", "light", "l", TARGET_NORMAL_LUMA)

\* generate_empty_swatches: its statements in their order, innermost first
generate_empty_swatches(v) ==
    fill_slot(
      fill_slot(
        fill_slot(
          fill_slot(
            fill_slot(fill_primary(fill_from_muted(v)),
                      "dark", "primary", "l", TARGET_DARK_LUMA),
            "light", "primary", "l", TARGET_LIGHT_LUMA),
          "muted", "primary", "s", TARGET_MUTED_SATURATION),
        "dark_muted", "dark", "s", TARGET_MUTED_SATURATION),
      "light_muted", "light", "s", TARGET_MUTED_SATURATION)

\* one lookup of generate_varation_colors: vibrancy.role = find_color_variation(..)
Lookup(role, next) ==
    /\ pc = role
    /\ IF pixel_counts = <<>>
       THEN /\ pc' = "panic"
            /\ UNCHANGED vibrancy
       ELSE /\ vibrancy' = [vibrancy EXCEPT ![role] =
                    find_color_variation(vibrancy, palette, pixel_counts,
                                         luma_of(role), saturation_of(role))]
            /\ pc' = next
    /\ UNCHANGED << ivars, hvars, result, pixels_cleaned, palette, pixel_counts, by_frequency >>

LookupPrimary == Lookup("primary", "light")
LookupLight == Lookup("light", "dark")
LookupDark == Lookup("dark", "muted")
LookupMuted == Lookup("muted", "light_muted")
LookupLightMuted == Lookup("light_muted", "dark_muted")
LookupDarkMuted == Lookup("dark_muted", "generate_empty_swatches")

\* Vibrancy::new: generate_empty_swatches(&mut v); v
GenerateEmptySwatches ==
    /\ pc = "generate_empty_swatches"
    /\ vibrancy' = generate_empty_swatches(vibrancy)
    /\ pc' = "returned"
    /\ UNCHANGED << ivars, hvars, result, pixels_cleaned, palette, pixel_counts, by_frequency >>

\* the populations of the swatches of a quantized image: a box of the
\* quantizer that reaches the palette holds at least one pixel
SwatchPopulations == {10, 200}

\* the palettes handed to generate_varation_colors: colors at up to MaxPalette
\* indices, the same color at several indices included, each with a population
InitVibrancy ==
    /\ IdleQuantizer
    /\ NoImage
    /\ pixels_cleaned = <<>>
    /\ by_frequency = None
    /\ vibrancy = NoVibrancy
    /\ pc = "primary"
    /\ palette \in SeqsUpTo(PaletteColors, MaxPalette)
    /\ pixel_counts \in [1..Len(palette) -> SwatchPopulations]

NextVibrancy ==
    \/ LookupPrimary
    \/ LookupLight
    \/ LookupDark
    \/ LookupMuted
    \/ LookupLightMuted
    \/ LookupDarkMuted
    \/ GenerateEmptySwatches

SpecVibrancy == InitVibrancy /\ [][NextVibrancy]_vars

\* sat.min <= s <= sat.max and luma.min <= l <= luma.max, of the role
InsideWindow(color, role) ==
    LET hsl == from_rgb_sl(color)
        luma == luma_of(role)
        sat == saturation_of(role)
    IN  /\ ~RLt(hsl.s, sat.min) /\ ~RLt(sat.max, hsl.s)
        /\ ~RLt(hsl.l, luma.min) /\ ~RLt(luma.max, hsl.l)

\* the slot of a role holds nothing or a color inside the window of the role
SlotInWindow(v, role) == is_some(v[role]) => InsideWindow(unwrap(v[role]), role)

\* C7, as stated: every slot that is set in the Vibrancy returned by
\* Vibrancy::new (the lookups and the fill-empty pass) holds a color inside
\* the window of its role.
C7_ReturnedInWindow ==
    pc = "returned" => \A role \in Roles : SlotInWindow(vibrancy, role)

\* C7, amended: every slot set by the six lookups of
\* generate_varation_colors, before generate_empty_swatches runs, holds a
\* color whose saturation and lightness lie inside the window of its role.
C7_SelectedInWindow ==
    pc \in Roles \cup {"generate_empty_swatches"} =>
        \A role \in Roles : SlotInWindow(vibrancy, role)

C7_Witness ==
    /\ pc = "generate_empty_swatches"
    /\ is_some(vibrancy.primary)
    /\ is_some(vibrancy.light_muted)
    /\ is_some(vibrancy.dark_muted)

\* C8: after the six lookups of generate_varation_colors, on any palette
\* (the same color may sit at several indices), no color is held by more
\* than one slot.
C8_NoSharedColor ==
    pc = "generate_empty_swatches" =>
        \A r1, r2 \in Roles :
            (r1 # r2 /\ is_some(vibrancy[r1])) => vibrancy[r1] # vibrancy[r2]

\* a color at two indices, both populated, inside the windows of primary and
\* of light: primary holds it and light does not
C8_Witness ==
    /\ pc = "generate_empty_swatches"
    /\ \E i, j \in 1..Len(palette) :
          /\ i < j
          /\ palette[i] = palette[j]
          /\ count_at(pixel_counts, i) > 0
          /\ count_at(pixel_counts, j) > 0
          /\ InsideWindow(palette[i], "primary")
          /\ InsideWindow(palette[i], "light")
          /\ vibrancy.primary = Some(palette[i])
          /\ vibrancy.light # Some(palette[i])

\* the palette [((50,50,50), 200), ((255,120,120), 10)] after the six lookups
DarkGrayLightRed ==
    /\ pc = "generate_empty_swatches"
    /\ palette = << <<50, 50, 50>>, <<255, 120, 120>> >>
    /\ pixel_counts = << 200, 10 >>

\* C12, as stated: for the palette [((50,50,50), 200), ((255,120,120), 10)]
\* role selection sets dark to (50,50,50) and leaves light unset.
C12_DarkIsGray ==
    DarkGrayLightRed =>
        /\ vibrancy.dark = Some(<<50, 50, 50>>)
        /\ vibrancy.light = None

\* C12, amended: for that palette role selection leaves dark unset, sets
\* dark_muted to (50,50,50) and light to (255,120,120), and sets no other
\* slot.
C12_DarkMutedIsGray ==
    DarkGrayLightRed =>
        vibrancy = [NoVibrancy EXCEPT !.dark_muted = Some(<<50, 50, 50>>),
                                      !.light = Some(<<255, 120, 120>>)]

C12_Witness == DarkGrayLightRed /\ vibrancy # NoVibrancy

\* the role the lookup before the current position has assigned
LookedUp ==
    [light |-> "primary", dark |-> "light", muted |-> "dark",
     light_muted |-> "muted", dark_muted |-> "light_muted",
     generate_empty_swatches |-> "dark_muted"]

\* entry i may be selected for the role by a lookup that finds the slots v
Eligible(v, i, role) ==
    /\ InsideWindow(palette[i], role)
    /\ \A slot \in Roles : v[slot] # Some(palette[i])
    /\ count_at(pixel_counts, i) # 0

\* the score of entry i for the role
Score(i, role) ==
    LET hsl == from_rgb_sl(palette[i])
    IN  create_comparison_value(hsl.s, saturation_of(role).target,
                                hsl.l, luma_of(role).target,
                                count_at(pixel_counts, i), max_count(pixel_counts))

\* the first eligible entry of maximal score
IsFirstBest(v, i, role) ==
    /\ Eligible(v, i, role)
    /\ \A j \in 1..Len(palette) :
          Eligible(v, j, role) =>
              /\ ~RLt(Score(i, role), Score(j, role))
              /\ j < i => RLt(Score(j, role), Score(i, role))

----------------------------------------------------------------------------
(* generate_empty_swatches as a function of the Vibrancy it is handed:     *)
(* vibrant.rs lines 208-264.                                               *)

\* the colors of the slots that are set
SlotColors == { <<50, 50, 50>>, <<255, 120, 120>>, <<50, 150, 100>> }

\* every Vibrancy with slots unset or set to a color of SlotColors
InitFill ==
    /\ IdleQuantizer
    /\ NoImage
    /\ pixels_cleaned = <<>>
    /\ by_frequency = None
    /\ palette = <<>>
    /\ pixel_counts = <<>>
    /\ pc = "generate_empty_swatches"
    /\ vibrancy \in [Roles -> {None} \cup { Some(c) : c \in SlotColors }]

NextFill == GenerateEmptySwatches

SpecFill == InitFill /\ [][NextFill]_vars

\* the pass keeps every slot that is set
KeepsSetSlots ==
    \A slot \in Roles : vibrancy[slot] # None => vibrancy'[slot] = vibrancy[slot]

\* a slot other than muted is set
HasSeed == \E slot \in Roles \ {"muted"} : vibrancy[slot] # None

\* C24: generate_empty_swatches changes no slot that is set; when a slot
\* other than muted is set before the pass all six slots are set after it,
\* and a Vibrancy with only muted set, or nothing set, is left as it is.
C24_FillKeepsSetSlots ==
    [][pc = "generate_empty_swatches" =>
           /\ KeepsSetSlots
           /\ HasSeed => \A slot \in Roles : vibrancy'[slot] # None
           /\ ~HasSeed => vibrancy' = vibrancy]_vars

\* the pass has run on a Vibrancy of which dark_muted alone was set: the
\* other five slots hold colors made from it, none of them a color of
\* SlotColors
C24_Witness ==
    /\ pc = "returned"
    /\ vibrancy.dark_muted = Some(<<50, 50, 50>>)
    /\ \A slot \in Roles \ {"dark_muted"} :
          /\ vibrancy[slot] # None
          /\ vibrancy[slot] \notin { Some(c) : c \in SlotColors }

=============================================================================
